---- MODULE Spec2Model ----
(***************************************************************************)
(* Model of the TextSecure client: the pinned TLS dialer shared by the     *)
(* HTTP client and the websocket client (transport.go, websocket.go), the  *)
(* websocket receive loop ListenForMessages with its keepalive task, and   *)
(* the envelope layer handleReceivedMessage (cmd/textsecure/main.go).      *)
(*                                                                         *)
(* Further specifications over the same variables: SpecOrder drives the    *)
(* receive loop with one peer's messages, SpecSetup makes successive Setup *)
(* calls on one install (with the HTTP requests of registration), SpecConv *)
(* runs the client program (main, conversationLoop, messageHandler), and   *)
(* SpecLock runs a session operation of the receive task against one of    *)
(* the send task. The session cipher and the store are modelled as the     *)
(* specification describes them.                                           *)
(*                                                                         *)
(* Byte strings are modelled by the properties the code inspects: a        *)
(* signaling key by its length, an envelope by its length class and by the *)
(* verdicts the library functions called on it return.                     *)
(***************************************************************************)
EXTENDS Naturals, Integers, Sequences, FiniteSets, TLC

VARIABLES
    config,            \* the loaded Config: Server, SkipTLSCheck, Fingerprint
    registrationInfo,  \* registrationInfo: signalingKey (its length in bytes)
    pc,                \* position of the main goroutine in ListenForMessages
    wsc,               \* the *wsConn of ListenForMessages (NoConn before the dial)
    dial,              \* record of the last TLS/TCP dial attempt of either client
    httpc,             \* the connection pooled by the http.Client (NoConn if none)
    kaStarted,         \* the keepAlive goroutine has been started
    cur,               \* the WebSocketMessage of the current loop iteration
    res,               \* what handling the current frame did
    sent,              \* frames written to the websocket in the current iteration
    delivered,         \* Messages passed to client.MessageHandler in this iteration
    everPanicked,      \* a panic has been recovered in an earlier iteration
    offer,             \* chain counters of one peer's messages, in arrival order
    nOffered,          \* how many of them the websocket has handed over
    session,           \* the peer's receiving chain in the session store
    acceptLog,         \* the offers the session cipher decrypted, in order
    handlerLog,        \* the offers client.MessageHandler was called with, in order
    store,             \* textSecureStore: what the storage directory holds
    setups,            \* number of Setup calls made on this install
    idWrites,          \* number of SetIdentityKeyPair calls made on this install
    lastSetup,         \* what the last Setup call saw and did
    options,           \* the command line of the client program: Echo, To, Group, Message
    activeSession,     \* the peer of *activeSession (Nil while the pointer is nil)
    sessions,          \* the peers in sessions
    loops,             \* the conversationLoop goroutines started, in order
    proc,              \* the client process: "main", "running", "exited", "fatal", "panic"
    sendLog,           \* the calls of SendMessage / SendGroupMessage, in order
    console,           \* the errors printed for the user, in order
    nLines,            \* lines read from the console so far
    nReceived,         \* messages passed to messageHandler so far
    mutex,             \* holder of the session mutex of one (peerId, deviceId), or Nil
    taskpc,            \* where the receive task and the send task are in a session operation
    sessionRecord,     \* the session in the store: messages decrypted and encrypted
    working,           \* each task's in-memory copy of the session
    crypted            \* session operations each task has completed

\* the state of the transport and of the receive loop
baseVars == <<config, registrationInfo, pc, wsc, dial, httpc, kaStarted,
              cur, res, sent, delivered, everPanicked>>

\* the state of one peer's session as the receive loop drives it
orderVars == <<offer, nOffered, session, acceptLog, handlerLog>>

\* the state of an install over successive Setup calls
setupVars == <<store, setups, idWrites, lastSetup>>

\* the state of the client program around the library
convVars == <<options, activeSession, sessions, loops, proc, sendLog, console,
              nLines, nReceived>>

\* the state of one peer's session shared by the receive and the send task
lockVars == <<mutex, taskpc, sessionRecord, working, crypted>>

auxVars == <<orderVars, setupVars, convVars, lockVars>>

vars == <<baseVars, auxVars>>

----------------------------------------------------------------------------
(* Bounds *)

\* longest certificate chain a peer presents
MaxChain == 2
\* most messages of one peer offered to the receive loop in one run
MaxOffer == 3
\* highest chain counter among those messages
MaxCtr == 3
\* most Setup calls made on one install
MaxSetups == 2
\* most lines read from the console in one run of the client program
MaxLines == 2
\* most messages passed to messageHandler in one run of the client program
MaxReceived == 2
\* most session operations each task performs
MaxCrypt == 3
\* most frames written to the websocket within one loop iteration
MaxSent == 2

----------------------------------------------------------------------------
(* Configuration and registration state *)

StagingServer == "https://textsecure-service-staging.whispersystems.org:443"

Servers == {StagingServer, "https://textsecure.example", "http://textsecure.example",
            "ftp://textsecure.example"}

\* config.Fingerprint as written in the YAML file: empty, not hex, or the hex
\* of a 32 byte SHA-256 value
Fingerprints == {"", "zz", "H1"}

\* lengths of the signaling key found in the store
KeyLens == {0, 40, 52}

Nil == "nil"

\* a nil connection
NoConn == [id |-> 0, tls |-> FALSE, pinned |-> FALSE, broken |-> FALSE]

\* hex.DecodeString: an error for a string that is not hex, else the bytes
HexDecode(s) == IF s = "zz" THEN [err |-> TRUE, bytes |-> ""]
                ELSE [err |-> FALSE, bytes |-> s]

\* the scheme of the URL: the text before "://"
Scheme(url) == CASE url = StagingServer -> "https"
                 [] url = "https://textsecure.example" -> "https"
                 [] url = "http://textsecure.example" -> "http"
                 [] url = "ftp://textsecure.example" -> "ftp"
                 [] OTHER -> ""

\* strings.Replace(originURL, "http", "ws", 1) as far as the scheme goes
ReplaceHttpWs(scheme) == CASE scheme = "https" -> "wss"
                           [] scheme = "http" -> "ws"
                           [] OTHER -> scheme

----------------------------------------------------------------------------
(* The pinned dialer *)

\* public keys of peer certificates; "unsupported" cannot be marshalled
PublicKeys == {"pk1", "pk2", "unsupported"}

\* sha256.Sum256(x509.MarshalPKIXPublicKey(key)): always 32 bytes
Sum256(key) == CASE key = "pk1" -> "H1"
                 [] key = "pk2" -> "H2"
                 [] OTHER -> "H0"

Chains == UNION {[1..n -> PublicKeys] : n \in 0..MaxChain}

\* what a dial meets: the TCP connect, the CA verdict on the chain, the chain
Peers == [reachable : BOOLEAN, caValid : BOOLEAN, chain : Chains]

\* the loop over connstate.PeerCertificates: "fatal" on a marshal error,
\* else whether some certificate hashed to the fingerprint
RECURSIVE PinLoop(_, _, _, _)
PinLoop(chain, i, fingerprint, keyPinValid) ==
    IF i > Len(chain) THEN IF keyPinValid THEN "valid" ELSE "invalid"
    ELSE IF chain[i] = "unsupported" THEN "fatal"
    ELSE PinLoop(chain, i + 1, fingerprint,
                 keyPinValid \/ Sum256(chain[i]) = fingerprint)

\* tls.Dial with InsecureSkipVerify = skipCAVerification
TlsDial(skipCAVerification, peer) ==
    peer.reachable /\ (skipCAVerification \/ peer.caValid)

\* the dialer without the final check of keyPinValid
makeDialer_Unchecked(fingerprint, skipCAVerification, peer) ==
    IF ~TlsDial(skipCAVerification, peer)
    THEN [conn |-> FALSE, err |-> TRUE, fatal |-> FALSE]
    ELSE IF PinLoop(peer.chain, 1, fingerprint, FALSE) = "fatal"
         THEN [conn |-> FALSE, err |-> FALSE, fatal |-> TRUE]
         ELSE [conn |-> TRUE, err |-> FALSE, fatal |-> FALSE]

\* the closure makeDialer returns, applied to a peer
makeDialer(fingerprint, skipCAVerification, peer) ==
    IF ~TlsDial(skipCAVerification, peer)
    THEN [conn |-> FALSE, err |-> TRUE, fatal |-> FALSE]
    ELSE IF PinLoop(peer.chain, 1, fingerprint, FALSE) = "valid"
         THEN [conn |-> TRUE, err |-> FALSE, fatal |-> FALSE]
         ELSE [conn |-> FALSE, err |-> FALSE, fatal |-> TRUE]

\* some certificate of the chain has the fingerprint as SHA-256 of its key
PinMatches(chain, fingerprint) ==
    \E i \in DOMAIN chain : chain[i] # "unsupported" /\ Sum256(chain[i]) = fingerprint

\* no dial has been attempted
NoDial == [who |-> "none", scheme |-> "", handshake |-> FALSE, matched |-> FALSE,
           returned |-> FALSE, written |-> FALSE]

----------------------------------------------------------------------------
(* The envelope layer *)

\* IncomingPushMessageSignal types; Nil is a signal without the type field
SignalTypes == {Nil, "RECEIPT", "CIPHERTEXT", "PLAINTEXT", "PREKEY_BUNDLE", "KEY_EXCHANGE"}

\* what the session cipher does with the inner message
InnerVerdicts == {"ok", "LoadError", "InvalidMessage", "DuplicateMessage", "InvalidMac"}

\* an envelope as the code sees it:
\*   size    "short" (fewer than 10 bytes), "ten" (exactly 10), "ok" (longer)
\*   mac     ValidTruncMAC(msg[:macpos], tmac, macKey) under the receiver's key
\*   plain   axolotl.Decrypt and proto.Unmarshal of the result:
\*           "ok", "bad" (unmarshal error), "panic" (Decrypt panics)
\*   type, source   fields of the IncomingPushMessageSignal
\*   inner   verdict of Load*WhisperMessage / SessionDecrypt*
\*   content handleMessageBody: "ok", "bad" (unmarshal error),
\*           "panic" (the MessageHandler callback panics)
\*   version the first byte, msg[0]; 1 unless said otherwise
Env(size, mac, plain, type, source, inner, content) ==
    [size |-> size, mac |-> mac, plain |-> plain, type |-> type,
     source |-> source, inner |-> inner, content |-> content, version |-> 1]

\* the envelope e with another version byte (and its MAC computed over it)
WithVersion(e, v) == [e EXCEPT !.version = v]

Envelopes ==
    {Env("short", FALSE, "bad", Nil, "", "ok", "ok")}
    \cup {Env("ten", m, "bad", Nil, "", "ok", "ok") : m \in BOOLEAN}
    \cup {Env("ok", FALSE, "ok", "CIPHERTEXT", "+bob", "ok", "ok")}
    \cup {Env("ok", TRUE, p, Nil, "", "ok", "ok") : p \in {"bad", "panic"}}
    \cup {Env("ok", TRUE, "ok", t, "", "ok", "ok") : t \in SignalTypes}
    \cup {Env("ok", TRUE, "ok", t, "+bob", "ok", "ok") : t \in {Nil, "RECEIPT", "KEY_EXCHANGE"}}
    \cup {Env("ok", TRUE, "ok", "PLAINTEXT", "+bob", "ok", c) : c \in {"ok", "bad"}}
    \cup {Env("ok", TRUE, "ok", t, "+bob", i, "ok") :
              t \in {"CIPHERTEXT", "PREKEY_BUNDLE"}, i \in InnerVerdicts}
    \cup {Env("ok", TRUE, "ok", t, "+bob", "ok", c) :
              t \in {"CIPHERTEXT", "PREKEY_BUNDLE"}, c \in {"bad", "panic"}}
    \cup {WithVersion(Env("ok", mac, "ok", "CIPHERTEXT", "+bob", "ok", "ok"), 2) :
              mac \in BOOLEAN}

\* a normal return of handleReceivedMessage, and a panic raised inside it
Return(err, ops, msgs) == [panic |-> FALSE, err |-> err, ops |-> ops, msgs |-> msgs]
Panic(ops, msgs) == [panic |-> TRUE, err |-> Nil, ops |-> ops, msgs |-> msgs]

\* the message body is unmarshalled and then dropped without the callback
handleMessageBody_NoCallback(src, msg, ops) ==
    IF msg.content = "bad"
    THEN Return("PushMessageContent", Append(ops, "handleMessageBody"), <<>>)
    ELSE Return(Nil, Append(ops, "handleMessageBody"), <<>>)

\* handleMessageBody: unmarshal the push content, call client.MessageHandler
handleMessageBody(src, msg, ops) ==
    IF msg.content = "bad"
    THEN Return("PushMessageContent", Append(ops, "handleMessageBody"), <<>>)
    ELSE LET m == [source |-> src, type |-> msg.type]
             o == ops \o <<"handleMessageBody", "MessageHandler">>
         IN  IF msg.content = "panic" THEN Panic(o, <<m>>) ELSE Return(Nil, o, <<m>>)

\* the switch with PREKEY_BUNDLE sharing the case of CIPHERTEXT
dispatch_Misrouted(msg, ops) ==
    CASE msg.type = "RECEIPT" -> Return(Nil, Append(ops, "handleReceipt"), <<>>)
      [] msg.type \in {"CIPHERTEXT", "PREKEY_BUNDLE"} ->
           IF msg.inner = "LoadError"
           THEN Return("LoadError", Append(ops, "LoadWhisperMessage"), <<>>)
           ELSE LET o == ops \o <<"LoadWhisperMessage", "SessionDecryptWhisperMessage">>
                IN  IF msg.inner # "ok" THEN Return(msg.inner, o, <<>>)
                    ELSE handleMessageBody(msg.source, msg, o)
      [] msg.type = "PLAINTEXT" ->
           IF msg.content = "bad"
           THEN Return("PushMessageContent", Append(ops, "Unmarshal"), <<>>)
           ELSE Return(Nil, Append(ops, "Unmarshal"), <<>>)
      [] OTHER -> Return("NotImplemented", ops, <<>>)

\* the switch on *ipms.Type
dispatch(msg, ops) ==
    CASE msg.type = "RECEIPT" -> Return(Nil, Append(ops, "handleReceipt"), <<>>)
      [] msg.type = "CIPHERTEXT" ->
           IF msg.inner = "LoadError"
           THEN Return("LoadError", Append(ops, "LoadWhisperMessage"), <<>>)
           ELSE LET o == ops \o <<"LoadWhisperMessage", "SessionDecryptWhisperMessage">>
                IN  IF msg.inner # "ok" THEN Return(msg.inner, o, <<>>)
                    ELSE handleMessageBody(msg.source, msg, o)
      [] msg.type = "PLAINTEXT" ->
           IF msg.content = "bad"
           THEN Return("PushMessageContent", Append(ops, "Unmarshal"), <<>>)
           ELSE Return(Nil, Append(ops, "Unmarshal"), <<>>)
      [] msg.type = "PREKEY_BUNDLE" ->
           IF msg.inner = "LoadError"
           THEN Return("LoadError", Append(ops, "LoadPreKeyWhisperMessage"), <<>>)
           ELSE LET o == ops \o <<"LoadPreKeyWhisperMessage",
                                  "SessionDecryptPreKeyWhisperMessage">>
                IN  IF msg.inner # "ok" THEN Return(msg.inner, o, <<>>)
                    ELSE handleMessageBody(msg.source, msg, o)
      [] OTHER -> Return("NotImplemented", ops, <<>>)

\* handleReceivedMessage after the MAC check: slice the ciphertext, decrypt,
\* unmarshal, recID, NewSessionCipher, dispatch
afterMAC(msg) ==
    IF msg.size = "ten" THEN Panic(<<"ValidTruncMAC">>, <<>>)
    ELSE IF msg.plain = "panic" THEN Panic(<<"ValidTruncMAC", "Decrypt">>, <<>>)
    ELSE IF msg.plain = "bad"
         THEN Return("Unmarshal", <<"ValidTruncMAC", "Decrypt", "Unmarshal">>, <<>>)
    ELSE IF msg.source = ""
         THEN Panic(<<"ValidTruncMAC", "Decrypt", "Unmarshal">>, <<>>)
    ELSE IF msg.type = Nil
         THEN Panic(<<"ValidTruncMAC", "Decrypt", "Unmarshal", "NewSessionCipher">>, <<>>)
    ELSE dispatch(msg, <<"ValidTruncMAC", "Decrypt", "Unmarshal", "NewSessionCipher">>)

\* the body with the result of ValidTruncMAC ignored
handleReceivedMessageBody_MacIgnored(msg, keyLen) ==
    IF msg.size = "short" THEN Panic(<<>>, <<>>)
    ELSE IF keyLen < 32 THEN Panic(<<>>, <<>>)
    ELSE afterMAC(msg)

\* the body of handleReceivedMessage, before the deferred function runs:
\* msg[macpos:] panics on fewer than 10 bytes, signalingKey[:32] and [32:] on
\* fewer than 32
handleReceivedMessageBody(msg, keyLen) ==
    IF msg.size = "short" THEN Panic(<<>>, <<>>)
    ELSE IF keyLen < 32 THEN Panic(<<>>, <<>>)
    ELSE IF ~msg.mac THEN Return("InvalidMAC", <<"ValidTruncMAC">>, <<>>)
    ELSE afterMAC(msg)

\* a function without the deferred recover(): the panic goes on to the caller
recover_Missing(r) ==
    [panic |-> r.panic, recovered |-> FALSE,
     err |-> r.err, ops |-> r.ops, msgs |-> r.msgs]

\* the deferred recover(): a panic ends the call, which then returns the zero
\* value of its result, a nil error
recover(r) ==
    [panic |-> r.panic, recovered |-> r.panic,
     err |-> IF r.panic THEN Nil ELSE r.err, ops |-> r.ops, msgs |-> r.msgs]

\* handleReceivedMessage: its body under the deferred recover
handleReceivedMessage(msg, keyLen) == recover(handleReceivedMessageBody(msg, keyLen))

----------------------------------------------------------------------------
(* Websocket frames *)

RequestIds == {1, 2}

\* Request.Body: raw envelope bytes, their base64 text, or no bytes at all
Bodies == [wrap : {"raw", "base64"}, env : Envelopes]
EmptyBody == [wrap |-> "empty", env |-> Env("short", FALSE, "bad", Nil, "", "ok", "ok")]

\* base64 text read as an envelope: long enough, and its MAC does not verify
TextEnvelope == Env("ok", FALSE, "ok", "CIPHERTEXT", "+bob", "ok", "ok")

\* the bytes of the body taken as they are (the staging branch)
RawBytes(body) == IF body.wrap = "base64" THEN TextEnvelope ELSE body.env

\* base64.StdEncoding.DecodeString: an envelope starts with its version byte,
\* which is not in the base64 alphabet
Base64Decode(body) ==
    IF body.wrap = "raw" THEN [err |-> TRUE, bytes |-> EmptyBody.env]
    ELSE [err |-> FALSE, bytes |-> body.env]

\* what wsc.receive() and proto.Unmarshal make of the incoming bytes:
\* unmarshal error, a REQUEST, or a RESPONSE (GetRequest() is nil: id 0, no body)
Frames ==
    {[unmarshal |-> FALSE, type |-> "REQUEST", id |-> 0, body |-> EmptyBody]}
    \cup {[unmarshal |-> TRUE, type |-> "RESPONSE", id |-> 0, body |-> EmptyBody]}
    \cup {[unmarshal |-> TRUE, type |-> "REQUEST", id |-> i, body |-> b] :
              i \in RequestIds, b \in Bodies}

NoFrame == [unmarshal |-> FALSE, type |-> "none", id |-> 0, body |-> EmptyBody]

\* nothing has been done with the current frame
NoRes == [called |-> FALSE, done |-> FALSE, panic |-> FALSE, recovered |-> FALSE,
          err |-> Nil, ops |-> <<>>]

\* an acknowledgement that leaves the id out
sendAck_NoId(id) == [type |-> "RESPONSE", id |-> 0, status |-> 200, message |-> "OK"]

\* the frame sendAck builds
sendAck(id) == [type |-> "RESPONSE", id |-> id, status |-> 200, message |-> "OK"]

\* the frame keepAlive builds with sendRequest("GET", "/v1/keepalive", nil, nil)
keepAliveFrame == [type |-> "REQUEST", id |-> 0, status |-> 0, message |-> "GET /v1/keepalive"]

----------------------------------------------------------------------------
(* The session cipher, as the specification describes its receiving chain *)

\* most message keys a session caches for messages that were skipped
MaxSkippedKeys == 2000

\* a fresh receiving chain: the next counter expected, and the counters
\* skipped so far whose message keys are cached
NoSession == [next |-> 1, skipped |-> {}]

\* SessionDecryptWhisperMessage on the message with chain counter ctr: a
\* cached key is used once; a counter ahead of the chain advances it and
\* caches the keys in between; anything else has been seen before
SessionDecrypt(s, ctr) ==
    IF ctr \in s.skipped
    THEN [err |-> "ok", session |-> [s EXCEPT !.skipped = @ \ {ctr}]]
    ELSE IF ctr >= s.next /\ Cardinality(s.skipped) + (ctr - s.next) <= MaxSkippedKeys
    THEN [err |-> "ok",
          session |-> [next |-> ctr + 1, skipped |-> s.skipped \cup (s.next .. ctr - 1)]]
    ELSE [err |-> "DuplicateMessage", session |-> s]

----------------------------------------------------------------------------
(* Dialing *)

\* websocket.NewClient on an established connection: writes the opening
\* handshake, then the server upgrades or refuses
NewClient(tls, upgrade) ==
    [out |-> IF upgrade THEN "conn" ELSE "err", tls |-> tls, handshake |-> tls,
     written |-> TRUE]

\* a dial that ends before a byte is written
DialEnds(out, handshake) ==
    [out |-> out, tls |-> FALSE, handshake |-> handshake, written |-> FALSE]

\* dialWithPin: tlsConfig is config.TlsConfig, a nil pointer when not set
dialWithPin(scheme, tlsConfig, fingerprint, peer, upgrade) ==
    CASE scheme = "ws" ->
           IF peer.reachable THEN NewClient(FALSE, upgrade) ELSE DialEnds("err", FALSE)
      [] scheme = "wss" ->
           IF ~tlsConfig.set THEN DialEnds("panic", FALSE)
           ELSE LET d == makeDialer(fingerprint, tlsConfig.InsecureSkipVerify, peer)
                IN  IF d.fatal THEN DialEnds("fatal", TRUE)
                    ELSE IF d.err THEN DialEnds("err", FALSE)
                    ELSE NewClient(TRUE, upgrade)
      [] OTHER -> DialEnds("err", FALSE)

\* newWSConn: the websocket URL, the TLS config, the pin, the dial
newWSConn(originURL, skipTLSCheck, fingerprint, peer, upgrade) ==
    LET wsScheme == ReplaceHttpWs(Scheme(originURL))
        tlsConfig == [set |-> skipTLSCheck, InsecureSkipVerify |-> skipTLSCheck]
        pin == HexDecode(fingerprint)
    IN  IF pin.err THEN DialEnds("fatal", FALSE) @@ [scheme |-> wsScheme]
        ELSE dialWithPin(wsScheme, tlsConfig, pin.bytes, peer, upgrade)
                 @@ [scheme |-> wsScheme]

\* the dial record of an attempt with result r against peer
DialRecord(who, r, peer, fingerprint) ==
    [who |-> who, scheme |-> r.scheme, handshake |-> r.handshake,
     matched |-> r.handshake /\ PinMatches(peer.chain, HexDecode(fingerprint).bytes),
     returned |-> r.out = "conn" \/ (r.out = "err" /\ r.written),
     written |-> r.written]

\* setupTransporter: NewHTTPTransporter decodes the fingerprint or dies
setupTransporter ==
    /\ pc = "setup"
    /\ pc' = IF HexDecode(config.Fingerprint).err THEN "fatal" ELSE "start"
    /\ UNCHANGED <<config, registrationInfo, wsc, dial, httpc, kaStarted,
                   cur, res, sent, delivered, everPanicked>>
    /\ UNCHANGED auxVars

\* the first request of the http.Client: https goes through DialTLS, the
\* pinned dialer; http is dialed plainly; any other scheme is refused
HTTPDo ==
    /\ pc = "start"
    /\ dial.who = "none"
    /\ \E peer \in Peers :
         LET scheme == Scheme(config.Server)
             fp == HexDecode(config.Fingerprint).bytes
             d == makeDialer(fp, config.SkipTLSCheck, peer)
             r == CASE scheme = "https" ->
                         IF d.fatal THEN DialEnds("fatal", TRUE)
                         ELSE IF d.err THEN DialEnds("err", FALSE)
                         ELSE NewClient(TRUE, TRUE)
                    [] scheme = "http" ->
                         IF peer.reachable THEN NewClient(FALSE, TRUE)
                         ELSE DialEnds("err", FALSE)
                    [] OTHER -> DialEnds("err", FALSE)
         IN  /\ dial' = DialRecord("http", r @@ [scheme |-> scheme], peer,
                                    config.Fingerprint)
             /\ httpc' = IF r.out = "conn"
                          THEN [id |-> 1, tls |-> r.tls, pinned |-> dial'.matched,
                                broken |-> FALSE]
                          ELSE httpc
             /\ pc' = IF r.out = "fatal" THEN "fatal" ELSE pc
    /\ UNCHANGED <<config, registrationInfo, wsc, kaStarted, cur, res, sent,
                   delivered, everPanicked>>
    /\ UNCHANGED auxVars

\* ListenForMessages up to the loop: newWSConn, then go wsc.keepAlive()
Listen ==
    /\ pc = "start"
    /\ \E peer \in Peers, upgrade \in BOOLEAN :
         LET r == newWSConn(config.Server, config.SkipTLSCheck, config.Fingerprint,
                            peer, upgrade)
         IN  /\ dial' = DialRecord("ws", r, peer, config.Fingerprint)
             /\ wsc' = IF r.out = "conn"
                        THEN [id |-> 1, tls |-> r.tls, pinned |-> dial'.matched,
                              broken |-> FALSE]
                        ELSE wsc
             /\ kaStarted' = (r.out = "conn")
             /\ pc' = CASE r.out = "conn" -> "recv"
                         [] r.out = "err" -> "returned"
                         [] r.out = "fatal" -> "fatal"
                         [] OTHER -> "panic"
    /\ UNCHANGED <<config, registrationInfo, httpc, cur, res, sent, delivered,
                   everPanicked>>
    /\ UNCHANGED auxVars

----------------------------------------------------------------------------
(* The receive loop *)

\* wsc.receive() and proto.Unmarshal: a transport error leads to the sleep, an
\* unmarshal error to the next iteration, a message to its handling
Receive ==
    /\ pc = "recv"
    /\ \/ /\ wsc' = [wsc EXCEPT !.broken = TRUE]
          /\ pc' = "sleep"
          /\ cur' = NoFrame
       \/ /\ ~wsc.broken
          /\ \E f \in Frames :
               /\ cur' = f
               /\ pc' = IF f.unmarshal THEN "handle" ELSE "recv"
          /\ wsc' = wsc
    /\ res' = NoRes
    /\ sent' = <<>>
    /\ delivered' = <<>>
    /\ UNCHANGED <<config, registrationInfo, dial, httpc, kaStarted, everPanicked>>
    /\ UNCHANGED auxVars

\* time.Sleep(3 * time.Second); continue
Sleep ==
    /\ pc = "sleep"
    /\ pc' = "recv"
    /\ UNCHANGED <<config, registrationInfo, wsc, dial, httpc, kaStarted,
                   cur, res, sent, delivered, everPanicked>>
    /\ UNCHANGED auxVars

\* the branch on config.Server: the staging server's body is handled as it
\* is; any other server's body is base64-decoded, and only a decoding error
\* is acted upon
HandleCore ==
    /\ pc = "handle"
    /\ IF config.Server = StagingServer
       THEN LET r == handleReceivedMessage(RawBytes(cur.body),
                                           registrationInfo.signalingKey)
            IN  /\ res' = [called |-> TRUE, done |-> ~r.panic \/ r.recovered,
                           panic |-> r.panic, recovered |-> r.recovered,
                           err |-> r.err, ops |-> r.ops]
                /\ delivered' = r.msgs
                /\ everPanicked' = (everPanicked \/ r.recovered)
                /\ pc' = IF r.panic /\ ~r.recovered THEN "crashed"
                          ELSE IF r.err # Nil THEN "recv"
                          ELSE "ack"
       ELSE LET m == Base64Decode(cur.body)
            IN  /\ res' = [NoRes EXCEPT !.done = TRUE,
                                        !.err = IF m.err THEN "Base64" ELSE Nil]
                /\ pc' = IF m.err THEN "recv" ELSE "ack"
                /\ UNCHANGED <<delivered, everPanicked>>
    /\ UNCHANGED <<config, registrationInfo, wsc, dial, httpc, kaStarted, cur, sent>>

\* handling a frame leaves the session bookkeeping of the other models alone
Handle == HandleCore /\ UNCHANGED auxVars

\* wsc.sendAck(wsm.GetRequest().GetId())
Ack ==
    /\ pc = "ack"
    /\ sent' = Append(sent, sendAck(cur.id))
    /\ pc' = "recv"
    /\ UNCHANGED <<config, registrationInfo, wsc, dial, httpc, kaStarted,
                   cur, res, delivered, everPanicked>>
    /\ UNCHANGED auxVars

\* keepalives written by the receive loop itself, between two receives
keepAlive_InLoop ==
    /\ kaStarted
    /\ pc = "ack"
    /\ Len(sent) < MaxSent
    /\ sent' = Append(sent, keepAliveFrame)
    /\ UNCHANGED <<config, registrationInfo, pc, wsc, dial, httpc, kaStarted,
                   cur, res, delivered, everPanicked>>
    /\ UNCHANGED auxVars

\* one round of the keepAlive goroutine
keepAlive ==
    /\ kaStarted
    /\ pc \in {"recv", "handle", "ack", "sleep"}
    /\ Len(sent) < MaxSent
    /\ sent' = Append(sent, keepAliveFrame)
    /\ UNCHANGED <<config, registrationInfo, pc, wsc, dial, httpc, kaStarted,
                   cur, res, delivered, everPanicked>>
    /\ UNCHANGED auxVars

----------------------------------------------------------------------------
(* The client program: conversation loops and the message handler *)

ConvPeers == {"+alice", "+bob"}
Groups == {"g1"}

\* the errors a send returns: none, a transport error, or
\* axolotl.NotTrustedError with the id of the peer whose identity changed
NoErr == [kind |-> Nil, ID |-> Nil]
NetErr == [kind |-> "NetworkError", ID |-> Nil]
NotTrustedError(id) == [kind |-> "NotTrusted", ID |-> id]

\* what textsecure.SendMessage / SendGroupMessage can return for a recipient
SendOutcomes(isGroup, to) ==
    {NoErr, NetErr}
    \cup IF isGroup THEN {NotTrustedError(p) : p \in ConvPeers} ELSE {NotTrustedError(to)}

\* the client program before main has run, with no option given
IdleConv ==
    /\ options = [Echo |-> FALSE, To |-> "", Group |-> FALSE, Message |-> ""]
    /\ activeSession = Nil
    /\ sessions = {}
    /\ loops = <<>>
    /\ proc = "main"
    /\ sendLog = <<>>
    /\ console = <<>>
    /\ nLines = 0
    /\ nReceived = 0

\* a send that is tried once more when the peer is not trusted
sendMessage_Retry(isGroup, to, message, out) ==
    LET call == [fn |-> IF isGroup THEN "SendGroupMessage" ELSE "SendMessage",
                 to |-> to, msg |-> message, err |-> out]
    IN  IF ~isGroup /\ out.kind = "NotTrusted"
        THEN [calls |-> <<call, call>>, err |-> out, fatal |-> FALSE, console |-> <<>>]
        ELSE [calls |-> <<call>>, err |-> out, fatal |-> FALSE, console |-> <<>>]

\* sendMessage of the client program; out is what the library call returns.
\* log.Fatalf prints the peer id and exits the process
sendMessage(isGroup, to, message, out) ==
    LET call == [fn |-> IF isGroup THEN "SendGroupMessage" ELSE "SendMessage",
                 to |-> to, msg |-> message, err |-> out]
    IN  IF ~isGroup /\ out.kind = "NotTrusted"
        THEN [calls |-> <<call>>, err |-> out, fatal |-> TRUE,
              console |-> <<[how |-> "Fatalf", id |-> out.ID, msg |-> message]>>]
        ELSE [calls |-> <<call>>, err |-> out, fatal |-> FALSE, console |-> <<>>]

\* what the caller of sendMessage prints: log.Println(err), or log.Fatal(err)
\* in main, when sendMessage returned an error
Logged(r, how) ==
    IF ~r.fatal /\ r.err.kind # Nil
    THEN <<[how |-> how, id |-> r.err.ID, msg |-> r.calls[1].msg]>>
    ELSE <<>>

\* main after Setup: a one-shot send, or conversation mode when a peer was
\* given, then ListenForMessages
main ==
    /\ proc = "main"
    /\ IF ~options.Echo /\ options.To # "" /\ options.Message # ""
       THEN \E out \in SendOutcomes(options.Group, options.To) :
              LET r == sendMessage(options.Group, options.To, <<"option", 0>>, out)
              IN  /\ sendLog' = sendLog \o r.calls
                  /\ console' = console \o r.console \o Logged(r, "Fatal")
                  /\ proc' = IF r.fatal \/ r.err.kind # Nil THEN "fatal" ELSE "exited"
                  /\ loops' = loops
       ELSE /\ loops' = IF ~options.Echo /\ options.To # ""
                         THEN <<[isGroup |-> options.Group, by |-> "main"]>>
                         ELSE loops
            /\ proc' = "running"
            /\ UNCHANGED <<sendLog, console>>
    /\ UNCHANGED <<options, activeSession, sessions, nLines, nReceived>>
    /\ UNCHANGED <<baseVars, orderVars, setupVars, lockVars>>

\* one round of one conversationLoop goroutine: a line is read; an empty one
\* is skipped; otherwise it is sent to activeSession.to, which panics on the
\* nil pointer
conversationLoop ==
    /\ proc = "running"
    /\ nLines < MaxLines
    /\ nLines' = nLines + 1
    /\ \E l \in DOMAIN loops, empty \in BOOLEAN :
         IF empty THEN UNCHANGED <<proc, sendLog, console>>
         ELSE IF activeSession = Nil
         THEN proc' = "panic" /\ UNCHANGED <<sendLog, console>>
         ELSE \E out \in SendOutcomes(loops[l].isGroup, activeSession) :
                LET r == sendMessage(loops[l].isGroup, activeSession,
                                     <<"line", nLines + 1>>, out)
                IN  /\ sendLog' = sendLog \o r.calls
                    /\ console' = console \o r.console \o Logged(r, "Println")
                    /\ proc' = IF r.fatal THEN "fatal" ELSE proc
    /\ UNCHANGED <<options, activeSession, sessions, loops, nReceived>>
    /\ UNCHANGED <<baseVars, orderVars, setupVars, lockVars>>

\* messageHandler, called with a message from source (to group, if not "")
messageHandler ==
    /\ proc = "running"
    /\ nReceived < MaxReceived
    /\ nReceived' = nReceived + 1
    /\ \E source \in ConvPeers, group \in {""} \cup Groups :
         IF options.Echo
         THEN LET to == IF group = "" THEN source ELSE group
              IN  \E out \in SendOutcomes(group # "", to) :
                    LET r == sendMessage(group # "", to, <<"echo", nReceived + 1>>, out)
                    IN  /\ sendLog' = sendLog \o r.calls
                        /\ console' = console \o r.console \o Logged(r, "Println")
                        /\ proc' = IF r.fatal THEN "fatal" ELSE proc
                        /\ UNCHANGED <<options, activeSession, sessions, loops>>
         ELSE /\ IF options.To = ""
                 THEN /\ sessions' = sessions \cup {source}
                      /\ activeSession' = source
                      /\ options' = IF group # "" THEN [options EXCEPT !.To = group]
                                      ELSE options
                      /\ loops' = loops \o <<[isGroup |-> group # "", by |-> "messageHandler"],
                                              [isGroup |-> FALSE, by |-> "messageHandler"]>>
                 ELSE /\ loops' = Append(loops, [isGroup |-> FALSE, by |-> "messageHandler"])
                      /\ UNCHANGED <<options, activeSession, sessions>>
              /\ UNCHANGED <<proc, sendLog, console>>
    /\ UNCHANGED nLines
    /\ UNCHANGED <<baseVars, orderVars, setupVars, lockVars>>

----------------------------------------------------------------------------
(* The session of one peer, shared by the receive task and the send task *)

\* the receive task (ListenForMessages, decrypting) and the send task (a
\* conversationLoop, encrypting)
Tasks == {"recv", "send"}

IdleLock ==
    /\ mutex = Nil
    /\ taskpc = [t \in Tasks |-> "idle"]
    /\ sessionRecord = [t \in Tasks |-> 0]
    /\ working = [t \in Tasks |-> [u \in Tasks |-> 0]]
    /\ crypted = [t \in Tasks |-> 0]

\* a session operation that does not wait for the mutex
SessionLock_NoWait(t) ==
    /\ taskpc[t] = "idle"
    /\ crypted[t] < MaxCrypt
    /\ mutex' = t
    /\ taskpc' = [taskpc EXCEPT ![t] = "locked"]
    /\ UNCHANGED <<sessionRecord, working, crypted>>
    /\ UNCHANGED <<baseVars, orderVars, setupVars, convVars>>

\* a session decrypt (recv) or encrypt (send) begins by taking the mutex of
\* the peer
SessionLock(t) ==
    /\ taskpc[t] = "idle"
    /\ crypted[t] < MaxCrypt
    /\ mutex = Nil
    /\ mutex' = t
    /\ taskpc' = [taskpc EXCEPT ![t] = "locked"]
    /\ UNCHANGED <<sessionRecord, working, crypted>>
    /\ UNCHANGED <<baseVars, orderVars, setupVars, convVars>>

\* LoadSession: the task reads the session record
LoadSession(t) ==
    /\ taskpc[t] = "locked"
    /\ working' = [working EXCEPT ![t] = sessionRecord]
    /\ taskpc' = [taskpc EXCEPT ![t] = "loaded"]
    /\ UNCHANGED <<mutex, sessionRecord, crypted>>
    /\ UNCHANGED <<baseVars, orderVars, setupVars, convVars>>

\* StoreSession: the task advances its chain in its copy and writes it back
StoreSession(t) ==
    /\ taskpc[t] = "loaded"
    /\ sessionRecord' = [working[t] EXCEPT ![t] = @ + 1]
    /\ crypted' = [crypted EXCEPT ![t] = @ + 1]
    /\ taskpc' = [taskpc EXCEPT ![t] = "stored"]
    /\ UNCHANGED <<mutex, working>>
    /\ UNCHANGED <<baseVars, orderVars, setupVars, convVars>>

\* the session operation ends by releasing the mutex
SessionUnlock(t) ==
    /\ taskpc[t] = "stored"
    /\ mutex' = Nil
    /\ taskpc' = [taskpc EXCEPT ![t] = "idle"]
    /\ UNCHANGED <<sessionRecord, working, crypted>>
    /\ UNCHANGED <<baseVars, orderVars, setupVars, convVars>>

----------------------------------------------------------------------------
(* The HTTP transport *)

\* status codes a server answers with
Statuses == {199, 200, 299, 300, 404}

\* what ht.client.Do returns: no response and an error; a response and no
\* error, whatever its status; or, when the client's redirect policy stops
\* following redirects, the last 3xx response together with an error
DoOutcomes ==
    {[resp |-> FALSE, status |-> 0, err |-> "NetworkError"]}
    \cup {[resp |-> TRUE, status |-> s, err |-> Nil] : s \in Statuses}
    \cup {[resp |-> TRUE, status |-> 302, err |-> "RedirectPolicy"]}

\* only a status of 400 or more counts as an error
isError_ClientErrorsOnly(r) == r.Status >= 400

\* Response.isError
isError(r) == r.Status < 200 \/ r.Status >= 300

\* r := &Response{}, filled from resp if there is one; returned with Do's err
Respond(method, o) ==
    LET r == [Status |-> IF o.resp THEN o.status ELSE 0,
              Body |-> IF o.resp THEN "resp.Body" ELSE Nil]
    IN  [method |-> method, out |-> o, r |-> r, err |-> o.err, logged |-> isError(r)]

\* HTTPTransporter.Get
Get(o) == Respond("GET", o)

\* HTTPTransporter.put
put(o) == Respond("PUT", o)

----------------------------------------------------------------------------
(* Setup and registration *)

\* passwords the storage password callback may return
Passwords == {"pw1", "pw2"}

\* the storage directory before the first Setup
EmptyStore == [identity |-> 0, registrationID |-> 0, password |-> 0,
               signalingKey |-> 0, preKeys |-> 0, key |-> Nil]

NoSetup == [called |-> FALSE, valid |-> FALSE, held |-> FALSE, before |-> EmptyStore,
            err |-> Nil, ops |-> <<>>, http |-> <<>>, rand |-> [hi |-> 0, lo |-> 0],
            registered |-> FALSE, pass |-> 0, stored |-> 0]

\* values randUint32 may return, as the two 16-bit halves of the uint32
\* (hi * 65536 + lo): the ends of the range and values around the 14-bit mask
RandUint32s == [hi : {0, 65535}, lo : {0, 16385, 65535}]

\* a & b on non-negative integers, bit by bit
RECURSIVE BitAnd(_, _)
BitAnd(a, b) ==
    IF a = 0 \/ b = 0 THEN 0
    ELSE (a % 2) * (b % 2) + 2 * BitAnd(a \div 2, b \div 2)

\* the random number cut to 16 bits instead of 14
generateRegistrationID_Truncated(rand) == rand.lo

\* generateRegistrationID: randUint32() & 0x3fff, the mask having no bit in
\* the upper half
generateRegistrationID(rand) == BitAnd(rand.hi, 0) * 65536 + BitAnd(rand.lo, 16383)

\* generateSignalingKey: the length of the slice it fills with random bytes
generateSignalingKey == 52

\* aesKey := signalingKey[:32]; macKey := signalingKey[32:], on a key of
\* keyLen bytes: both slice expressions panic on a shorter key
signalingKeySplit(keyLen) ==
    IF keyLen < 32 THEN [panic |-> TRUE, aesKey |-> 0, macKey |-> 0]
    ELSE [panic |-> FALSE, aesKey |-> 32, macKey |-> keyLen - 32]

\* store.valid(): the store holds an identity that decrypts cleanly under
\* the keys derived from the password given
valid(st, pw) == st.identity # 0 /\ st.key = pw

\* needsRegistration
needsRegistration(st, pw) == ~valid(st, pw)

\* a transport call has failed for its caller: a transport error, or a
\* response that isError()
Failed(c) == c.err # Nil \/ isError(c.r)

\* a registerDevice that goes on after a refused verification code
registerDevice_NoStop(o1, o2, o3) ==
    LET c1 == Get(o1)
        c2 == put(o2)
        c3 == put(o3)
    IN  IF Failed(c1)
        THEN [err |-> "requestCode", ops |-> <<"requestCode">>, http |-> <<c1>>,
              generated |-> FALSE]
        ELSE [err |-> IF Failed(c3) THEN "registerPreKeys2" ELSE Nil,
              ops |-> <<"requestCode", "verifyCode", "generatePreKeys",
                        "generatePreKeyState", "registerPreKeys2">>,
              http |-> <<c1, c2, c3>>, generated |-> TRUE]

\* registerDevice: requestCode (the verification GET), verifyCode (the verify
\* PUT), generatePreKeys, generatePreKeyState, registerPreKeys2 (the pre-key
\* upload), stopping at the first error
registerDevice(o1, o2, o3) ==
    LET c1 == Get(o1)
        c2 == put(o2)
        c3 == put(o3)
    IN  IF Failed(c1)
        THEN [err |-> "requestCode", ops |-> <<"requestCode">>, http |-> <<c1>>,
              generated |-> FALSE]
        ELSE IF Failed(c2)
        THEN [err |-> "verifyCode", ops |-> <<"requestCode", "verifyCode">>,
              http |-> <<c1, c2>>, generated |-> FALSE]
        ELSE [err |-> IF Failed(c3) THEN "registerPreKeys2" ELSE Nil,
              ops |-> <<"requestCode", "verifyCode", "generatePreKeys",
                        "generatePreKeyState", "registerPreKeys2">>,
              http |-> <<c1, c2, c3>>, generated |-> TRUE]

\* the tail of Setup: everything is loaded from the store
LoadOps == <<"GetLocalRegistrationID", "loadHTTPPassword", "loadHTTPSignalingKey",
             "setupTransporter", "GetIdentityKeyPair">>

\* Setup on the store st, with the storage password pw, whether loadConfig
\* succeeds, and the outcomes of the HTTP requests registration would make;
\* gen numbers the values generated by this call, and rand is what
\* randUint32 returns for the registration id
SetupResult(st, pw, cfgOK, o1, o2, o3, gen, rand) ==
    IF ~cfgOK
    THEN [err |-> "loadConfig", ops |-> <<"loadConfig">>, http |-> <<>>, store |-> st,
          registered |-> FALSE, pass |-> 0, stored |-> 0]
    ELSE IF needsRegistration(st, pw)
    THEN LET reg == registerDevice(o1, o2, o3)
             st2 == [identity |-> gen, registrationID |-> generateRegistrationID(rand),
                     password |-> gen, signalingKey |-> generateSignalingKey,
                     preKeys |-> IF reg.generated THEN 100 ELSE st.preKeys,
                     key |-> pw]
             ops1 == <<"loadConfig", "setupStore", "SetLocalRegistrationID",
                       "storeHTTPPassword", "storeHTTPSignalingKey",
                       "SetIdentityKeyPair", "setupTransporter">> \o reg.ops
             \* setupTransporter takes registrationInfo.password, set to the
             \* generated password; the store holds what storeHTTPPassword wrote
             sent0 == [registered |-> reg.err = Nil, pass |-> gen, stored |-> st2.password]
         IN  IF reg.err # Nil
             THEN [err |-> reg.err, ops |-> ops1, http |-> reg.http, store |-> st2]
                  @@ sent0
             ELSE [err |-> Nil, ops |-> ops1 \o LoadOps, http |-> reg.http, store |-> st2]
                  @@ sent0
    ELSE [err |-> Nil, ops |-> <<"loadConfig", "setupStore">> \o LoadOps,
          http |-> <<>>, store |-> st,
          registered |-> FALSE, pass |-> st.password, stored |-> st.password]

\* the operation op is among the steps of a Setup call
Did(ops, op) == \E i \in DOMAIN ops : ops[i] = op

\* the response every request gets that is not said to get another
OkOutcome == [resp |-> TRUE, status |-> 200, err |-> Nil]

\* the outcomes of the three requests of a registration, as far as they are
\* made: a request after a failed one is never sent and gets no outcome
RegistrationRuns ==
    {run \in DoOutcomes \X DoOutcomes \X DoOutcomes :
        /\ Failed(Get(run[1])) => (run[2] = OkOutcome /\ run[3] = OkOutcome)
        /\ Failed(put(run[2])) => run[3] = OkOutcome}

\* what a Setup call draws from its environment: the outcomes of its
\* requests and its random number, if it registers, and nothing otherwise
SetupInputs(registers) ==
    IF registers THEN RegistrationRuns \X RandUint32s
    ELSE {<<(<<OkOutcome, OkOutcome, OkOutcome>>), NoSetup.rand>>}

\* one call of Setup, in a process started on the install's storage directory
Setup ==
    /\ setups < MaxSetups
    /\ \E pw \in Passwords, cfgOK \in BOOLEAN :
       \E inp \in SetupInputs(cfgOK /\ needsRegistration(store, pw)) :
         LET o1 == inp[1][1]
             o2 == inp[1][2]
             o3 == inp[1][3]
             rand == inp[2]
             r == SetupResult(store, pw, cfgOK, o1, o2, o3, idWrites + 1, rand)
         IN  /\ store' = r.store
             /\ idWrites' = IF Did(r.ops, "SetIdentityKeyPair") THEN idWrites + 1
                             ELSE idWrites
             /\ lastSetup' = [called |-> TRUE, valid |-> valid(store, pw),
                              held |-> store.identity # 0, before |-> store,
                              err |-> r.err, ops |-> r.ops, http |-> r.http,
                              rand |-> IF Did(r.ops, "SetLocalRegistrationID")
                                       THEN rand ELSE NoSetup.rand,
                              registered |-> lastSetup.registered \/ r.registered,
                              pass |-> r.pass, stored |-> r.stored]
    /\ setups' = setups + 1
    /\ UNCHANGED <<baseVars, orderVars, convVars, lockVars>>

SetupInit ==
    /\ config \in [Server : {StagingServer}, SkipTLSCheck : {FALSE}, Fingerprint : {"H1"}]
    /\ registrationInfo = [signalingKey |-> 0]
    /\ pc = "setup"
    /\ wsc = NoConn
    /\ dial = NoDial
    /\ httpc = NoConn
    /\ kaStarted = FALSE
    /\ cur = NoFrame
    /\ res = NoRes
    /\ sent = <<>>
    /\ delivered = <<>>
    /\ everPanicked = FALSE
    /\ offer = <<>>
    /\ nOffered = 0
    /\ session = NoSession
    /\ acceptLog = <<>>
    /\ handlerLog = <<>>
    /\ store = EmptyStore
    /\ setups = 0
    /\ idWrites = 0
    /\ lastSetup = NoSetup
    /\ IdleConv
    /\ IdleLock

SetupNext == Setup

SpecSetup == SetupInit /\ [][SetupNext]_vars

----------------------------------------------------------------------------
(* The client program and the shared session as specifications of their own *)

\* the library before ListenForMessages, on the staging server
IdleBase ==
    /\ config \in [Server : {StagingServer}, SkipTLSCheck : {FALSE}, Fingerprint : {"H1"}]
    /\ registrationInfo = [signalingKey |-> 52]
    /\ pc = "setup"
    /\ wsc = NoConn
    /\ dial = NoDial
    /\ httpc = NoConn
    /\ kaStarted = FALSE
    /\ cur = NoFrame
    /\ res = NoRes
    /\ sent = <<>>
    /\ delivered = <<>>
    /\ everPanicked = FALSE

\* no peer has sent anything yet
IdleOrder ==
    /\ offer = <<>>
    /\ nOffered = 0
    /\ session = NoSession
    /\ acceptLog = <<>>
    /\ handlerLog = <<>>

\* the install as the Setup model starts it
IdleSetup ==
    /\ store = EmptyStore
    /\ setups = 0
    /\ idWrites = 0
    /\ lastSetup = NoSetup

ConvInit ==
    /\ IdleBase /\ IdleOrder /\ IdleSetup /\ IdleLock
    /\ options \in [Echo : BOOLEAN, To : {"", "+bob", "g1"}, Group : BOOLEAN,
                     Message : {"", "hi"}]
    /\ activeSession = Nil
    /\ sessions = {}
    /\ loops = <<>>
    /\ proc = "main"
    /\ sendLog = <<>>
    /\ console = <<>>
    /\ nLines = 0
    /\ nReceived = 0

ConvNext ==
    \/ main
    \/ conversationLoop
    \/ messageHandler

SpecConv == ConvInit /\ [][ConvNext]_vars

LockInit == IdleBase /\ IdleOrder /\ IdleSetup /\ IdleConv /\ IdleLock

LockNext ==
    \/ \E t \in Tasks : SessionLock(t)
    \/ \E t \in Tasks : LoadSession(t)
    \/ \E t \in Tasks : StoreSession(t)
    \/ \E t \in Tasks : SessionUnlock(t)

SpecLock == LockInit /\ [][LockNext]_vars

----------------------------------------------------------------------------
(* Specification *)

Init ==
    /\ config \in [Server : Servers, SkipTLSCheck : BOOLEAN, Fingerprint : Fingerprints]
    /\ registrationInfo \in [signalingKey : KeyLens]
    /\ pc = "setup"
    /\ wsc = NoConn
    /\ dial = NoDial
    /\ httpc = NoConn
    /\ kaStarted = FALSE
    /\ cur = NoFrame
    /\ res = NoRes
    /\ sent = <<>>
    /\ delivered = <<>>
    /\ everPanicked = FALSE
    /\ offer = <<>>
    /\ nOffered = 0
    /\ session = NoSession
    /\ acceptLog = <<>>
    /\ handlerLog = <<>>
    /\ store = EmptyStore
    /\ setups = 0
    /\ idWrites = 0
    /\ lastSetup = NoSetup
    /\ IdleConv
    /\ IdleLock

Next ==
    \/ setupTransporter
    \/ HTTPDo
    \/ Listen
    \/ Receive
    \/ Sleep
    \/ Handle
    \/ Ack
    \/ keepAlive

Spec == Init /\ [][Next]_vars

----------------------------------------------------------------------------
(* One peer's messages through the receive loop *)

\* one message of the peer: its chain counter and what its decrypted body is
OfferedMessages == [ctr : 1 .. MaxCtr, content : {"ok", "bad"}]

\* m1..m10 arriving in the order 3,1,2,10,4..9, all well-formed
OutOfOrderOffer ==
    [i \in 1 .. 10 |-> [ctr |-> <<3, 1, 2, 10, 4, 5, 6, 7, 8, 9>>[i], content |-> "ok"]]

\* the arrival orders considered: every short one, repeats included, and the
\* ten-message scenario
Offers ==
    UNION {[1 .. n -> OfferedMessages] : n \in 0 .. MaxOffer} \cup {OutOfOrderOffer}

\* the frame the server pushes for the offered message o: a well-formed
\* CIPHERTEXT envelope from +bob, raw on the staging server and base64 text
\* elsewhere, whose session verdict is the one the peer's session gives
OfferedFrame(o, n) ==
    [unmarshal |-> TRUE, type |-> "REQUEST", id |-> n,
     body |-> [wrap |-> IF config.Server = StagingServer THEN "raw" ELSE "base64",
               env |-> Env("ok", TRUE, "ok", "CIPHERTEXT", "+bob",
                           SessionDecrypt(session, o.ctr).err, o.content)]]

\* wsc.receive() hands over the next offered message
OrderReceive ==
    /\ pc = "recv"
    /\ nOffered < Len(offer)
    /\ nOffered' = nOffered + 1
    /\ cur' = OfferedFrame(offer[nOffered + 1], nOffered + 1)
    /\ pc' = "handle"
    /\ res' = NoRes
    /\ sent' = <<>>
    /\ delivered' = <<>>
    /\ UNCHANGED <<config, registrationInfo, wsc, dial, httpc, kaStarted, everPanicked>>
    /\ UNCHANGED <<offer, session, acceptLog, handlerLog>>
    /\ UNCHANGED <<setupVars, convVars, lockVars>>

\* the frame is handled as in Handle; where handleReceivedMessage got as far
\* as the session cipher, the session advances, and where handleMessageBody
\* called client.MessageHandler, the callback has run
OrderHandle ==
    /\ HandleCore
    /\ LET o == offer[nOffered]
           d == SessionDecrypt(session, o.ctr)
           ran == \E i \in DOMAIN res'.ops : res'.ops[i] = "SessionDecryptWhisperMessage"
       IN  /\ session' = IF ran THEN d.session ELSE session
           /\ acceptLog' = IF ran /\ d.err = "ok" THEN Append(acceptLog, o) ELSE acceptLog
           /\ handlerLog' = IF delivered' # <<>> THEN Append(handlerLog, o) ELSE handlerLog
    /\ UNCHANGED <<offer, nOffered>>
    /\ UNCHANGED <<setupVars, convVars, lockVars>>

\* wsc.sendAck for the offered message
OrderAck == Ack

OrderInit ==
    /\ config \in [Server : {StagingServer, "https://textsecure.example"},
                    SkipTLSCheck : {FALSE}, Fingerprint : {"H1"}]
    /\ registrationInfo = [signalingKey |-> 52]
    /\ pc = "recv"
    /\ wsc = [id |-> 1, tls |-> TRUE, pinned |-> TRUE, broken |-> FALSE]
    /\ dial = NoDial
    /\ httpc = NoConn
    /\ kaStarted = TRUE
    /\ cur = NoFrame
    /\ res = NoRes
    /\ sent = <<>>
    /\ delivered = <<>>
    /\ everPanicked = FALSE
    /\ offer \in Offers
    /\ nOffered = 0
    /\ session = NoSession
    /\ acceptLog = <<>>
    /\ handlerLog = <<>>
    /\ store = EmptyStore
    /\ setups = 0
    /\ idWrites = 0
    /\ lastSetup = NoSetup
    /\ IdleConv
    /\ IdleLock

OrderNext ==
    \/ OrderReceive
    \/ OrderHandle
    \/ OrderAck

SpecOrder == OrderInit /\ [][OrderNext]_vars

----------------------------------------------------------------------------
(* Properties *)

\* the envelope bytes handleReceivedMessage was called with
handledEnvelope == RawBytes(cur.body)

\* the RESPONSE frames written in the current iteration
Acks == SelectSeq(sent, LAMBDA f : f.type = "RESPONSE")

\* the current frame is a REQUEST and its iteration ran without an error
HandledOK ==
    /\ cur.unmarshal /\ cur.type = "REQUEST"
    /\ res.done /\ res.err = Nil

\* C1: once a REQUEST frame has been handled without error and the loop is
\* back at receive, exactly one RESPONSE has been written for it, and it
\* carries the request's id, status 200 and message "OK"
C1_AckOnce ==
    (pc = "recv" /\ HandledOK) =>
        Acks = <<[type |-> "RESPONSE", id |-> cur.id, status |-> 200, message |-> "OK"]>>

C1_Witness ==
    /\ pc = "recv" /\ HandledOK /\ res.called /\ cur.id = 2
    /\ delivered # <<>>
    /\ Len(Acks) = 1 /\ Acks[1].id = 2

\* C2: for every server, a RESPONSE is written only after the body of the
\* request went through handleReceivedMessage, and a valid CIPHERTEXT or
\* PREKEY_BUNDLE envelope has reached MessageHandler by then
C2_AckAfterHandling ==
    (cur.type = "REQUEST" /\ Acks # <<>>) =>
        /\ res.called
        /\ (/\ cur.body.env.size = "ok" /\ cur.body.env.mac
            /\ cur.body.env.plain = "ok" /\ cur.body.env.source # ""
            /\ cur.body.env.type \in {"CIPHERTEXT", "PREKEY_BUNDLE"}
            /\ cur.body.env.inner = "ok" /\ cur.body.env.content = "ok")
           => delivered # <<>>

\* C3: an envelope whose handling failed with an invalid MAC, an invalid
\* message or a duplicate message is not delivered and is acknowledged
\* before the next receive
C3_DroppedButAcked ==
    (/\ pc = "recv" /\ res.called
     /\ res.err \in {"InvalidMAC", "InvalidMac", "InvalidMessage", "DuplicateMessage"})
    => /\ delivered = <<>>
       /\ \E i \in DOMAIN Acks : Acks[i].id = cur.id

\* C4: after a TLS handshake the dialer hands the connection to its caller
\* only if a certificate of the chain matched the fingerprint; if none did,
\* the process is dead and nothing was written on the connection
C4_PinnedDialer ==
    dial.handshake =>
        /\ dial.returned => dial.matched
        /\ ~dial.matched =>
              /\ pc = "fatal" /\ ~dial.written /\ ~dial.returned
              /\ (dial.who = "ws" => wsc = NoConn)
              /\ (dial.who = "http" => httpc = NoConn)

C4_Witness ==
    /\ dial.who = "ws" /\ dial.handshake /\ ~dial.matched
    /\ config.Fingerprint = ""
    /\ pc = "fatal"

\* C5: with SkipTLSCheck true or false, a websocket dial to a wss URL goes
\* through the pinned dialer: it ends with a pinned connection, an error or
\* the fatal pin failure
C5_PinForBothSettings ==
    (dial.who = "ws" /\ dial.scheme = "wss") =>
        /\ pc # "panic"
        /\ wsc # NoConn => dial.matched
        /\ (dial.handshake /\ ~dial.matched) => pc = "fatal"

\* C6: every connection newWSConn returns is a TLS connection that passed
\* the pin check
C6_NoPlainConnection == wsc # NoConn => (wsc.tls /\ wsc.pinned)

\* C7: the loop never calls receive on a connection on which receive has
\* failed: after the sleep it has a new connection
C7_ReconnectAfterError == pc = "recv" => ~wsc.broken

\* C8: a panic raised while an envelope is handled is recovered inside
\* handleReceivedMessage: the loop is never unwound, and after the panic it is
\* at the acknowledgement or back at receive
C8_PanicsRecovered ==
    /\ pc # "crashed"
    /\ res.panic => (res.recovered /\ res.err = Nil /\ pc \in {"ack", "recv"})

C8_Witness ==
    /\ everPanicked
    /\ pc = "recv" /\ res.called /\ ~res.panic /\ res.err = Nil
    /\ delivered # <<>>

\* C9: ValidTruncMAC is the first thing done with an envelope, and when it
\* fails handleReceivedMessage returns an error having done nothing else: no
\* decrypt, no session cipher, no callback
C9_MacFirst ==
    res.called =>
        /\ res.ops # <<>> => res.ops[1] = "ValidTruncMAC"
        /\ (/\ handledEnvelope.size # "short"
            /\ registrationInfo.signalingKey >= 32
            /\ ~handledEnvelope.mac)
           => /\ res.err = "InvalidMAC"
              /\ res.ops = <<"ValidTruncMAC">>
              /\ delivered = <<>>
              /\ pc = "recv"

C9_Witness ==
    /\ res.called /\ ~handledEnvelope.mac /\ cur.body.wrap = "raw"
    /\ handledEnvelope.size = "ok"
    /\ res.err = "InvalidMAC"

\* C10: with a signaling key shorter than 52 bytes every envelope (here: of
\* a REQUEST, longer than 10 bytes) is rejected: handleReceivedMessage
\* returns an error and neither decrypts, nor touches a session, nor calls back
C10_ShortKeyRejected ==
    (/\ res.called /\ cur.type = "REQUEST" /\ handledEnvelope.size = "ok"
     /\ registrationInfo.signalingKey < 52) =>
        /\ res.err # Nil
        /\ \A i \in DOMAIN res.ops : res.ops[i] \in {"ValidTruncMAC"}
        /\ delivered = <<>>

\* C11: an envelope whose version byte is not 1 is rejected even with a
\* valid MAC: handleReceivedMessage returns an error, does not decrypt it,
\* does not dispatch it and does not deliver it
C11_VersionChecked ==
    (/\ res.called /\ cur.type = "REQUEST" /\ registrationInfo.signalingKey = 52
     /\ handledEnvelope.version # 1 /\ handledEnvelope.mac) =>
        /\ res.err # Nil
        /\ \A i \in DOMAIN res.ops : res.ops[i] = "ValidTruncMAC"
        /\ delivered = <<>>

\* how often the operation op was performed on the current envelope
Count(op) == Cardinality({i \in DOMAIN res.ops : res.ops[i] = op})

\* the session cipher decrypted nothing for the current envelope
NoSessionDecrypt ==
    /\ Count("SessionDecryptWhisperMessage") = 0
    /\ Count("SessionDecryptPreKeyWhisperMessage") = 0

\* the current envelope got as far as the switch on its type
ReachedDispatch ==
    /\ handledEnvelope.size = "ok" /\ registrationInfo.signalingKey >= 32
    /\ handledEnvelope.mac /\ handledEnvelope.plain = "ok"
    /\ handledEnvelope.source # "" /\ handledEnvelope.type # Nil

\* C12: dispatch follows the type. RECEIPT: no session decrypt, no callback;
\* CIPHERTEXT: one SessionDecryptWhisperMessage (once the message is loaded)
\* and nothing else; PREKEY_BUNDLE: one SessionDecryptPreKeyWhisperMessage
\* and nothing else; PLAINTEXT: no session decrypt; any other type: an error
\* and no session decrypt
C12_DispatchByType ==
    res.called =>
        /\ handledEnvelope.type = "RECEIPT" => (NoSessionDecrypt /\ delivered = <<>>)
        /\ handledEnvelope.type = "PLAINTEXT" => NoSessionDecrypt
        /\ handledEnvelope.type = "CIPHERTEXT" =>
              /\ Count("SessionDecryptPreKeyWhisperMessage") = 0
              /\ Count("SessionDecryptWhisperMessage") =
                    IF ReachedDispatch /\ handledEnvelope.inner # "LoadError" THEN 1 ELSE 0
        /\ handledEnvelope.type = "PREKEY_BUNDLE" =>
              /\ Count("SessionDecryptWhisperMessage") = 0
              /\ Count("SessionDecryptPreKeyWhisperMessage") =
                    IF ReachedDispatch /\ handledEnvelope.inner # "LoadError" THEN 1 ELSE 0
        /\ handledEnvelope.type = "KEY_EXCHANGE" =>
              /\ NoSessionDecrypt /\ delivered = <<>>
              /\ ReachedDispatch => res.err = "NotImplemented"

C12_Witness ==
    /\ res.called /\ handledEnvelope.type = "PREKEY_BUNDLE"
    /\ Count("SessionDecryptPreKeyWhisperMessage") = 1
    /\ Count("SessionDecryptWhisperMessage") = 0
    /\ delivered # <<>>

\* the receive loop is blocked in receive, handling an envelope (or
\* acknowledging it), or sleeping after a receive error
InLoop == pc \in {"recv", "handle", "ack", "sleep"}

\* C18: keepalives are sent by a task of their own, started only once the
\* websocket connection is established, and that task can send a keepalive
\* whenever the receive loop is blocked in receive, handling an envelope or
\* sleeping after a receive error (the 15 s period is real time, not modelled;
\* MaxSent caps the frames recorded per iteration)
C18_KeepAliveTask ==
    /\ kaStarted => wsc.id # 0
    /\ (\E i \in DOMAIN sent : sent[i] = keepAliveFrame) => kaStarted
    /\ (wsc.id # 0 /\ InLoop /\ Len(sent) < MaxSent) => ENABLED keepAlive

C18_Witness ==
    /\ pc = "sleep" /\ wsc.broken
    /\ \E i \in DOMAIN sent : sent[i] = keepAliveFrame

\* the callback is called for a decrypted message whose body unmarshals
Deliverable(o) == o.content = "ok"

\* the chain counters of a log, in order
Ctrs(log) == [i \in DOMAIN log |-> log[i].ctr]

\* C13: the messages of one peer reach MessageHandler in the order in which
\* the session cipher accepted them: after every handled envelope the
\* callbacks made are exactly the accepted messages with a well-formed body,
\* in acceptance order, and within one envelope the callback comes after
\* its session decrypt
C13_DeliveryOrder ==
    /\ handlerLog = SelectSeq(acceptLog, Deliverable)
    /\ \A i, j \in DOMAIN res.ops :
          (res.ops[i] = "SessionDecryptWhisperMessage" /\ res.ops[j] = "MessageHandler")
              => i < j

C13_Witness ==
    /\ Len(handlerLog) = 2 /\ Len(acceptLog) = 3
    /\ handlerLog[1].ctr > handlerLog[2].ctr

\* C14: m1..m10 offered in the order 3,1,2,10,4..9 are all delivered to
\* MessageHandler exactly once, in send order
C14_SendOrder ==
    (/\ offer = OutOfOrderOffer /\ nOffered = Len(offer) /\ pc = "recv"
     /\ config.Server = StagingServer)
        => Ctrs(handlerLog) = <<1, 2, 3, 4, 5, 6, 7, 8, 9, 10>>

\* C16: the identity keypair is written at most once per install, over any
\* sequence of Setup calls, and never by a Setup that found an identity in
\* the store
C16_IdentityWrittenOnce ==
    /\ idWrites <= 1
    /\ (lastSetup.called /\ Did(lastSetup.ops, "SetIdentityKeyPair")) => ~lastSetup.held

\* the steps of Setup that talk to the server
NetworkOps == {"requestCode", "verifyCode", "registerPreKeys2"}

\* the steps of Setup that create a value and write it to the store
CreateOps == {"SetLocalRegistrationID", "storeHTTPPassword", "storeHTTPSignalingKey",
              "SetIdentityKeyPair", "generatePreKeys", "generatePreKeyState"}

\* C17: a Setup that finds a valid identity in the store only loads: it makes
\* no HTTP request and leaves the store as it was; registration id, HTTP
\* password, signaling key and identity are created only by a Setup that
\* found the store empty
C17_ValidStoreOnlyLoads ==
    lastSetup.called =>
        /\ lastSetup.valid =>
              /\ lastSetup.http = <<>>
              /\ \A op \in NetworkOps \cup CreateOps : ~Did(lastSetup.ops, op)
              /\ store = lastSetup.before
        /\ (\E op \in CreateOps : Did(lastSetup.ops, op)) => lastSetup.before = EmptyStore

\* C19 as stated: a response is an error exactly when its status is outside
\* 200..299 (0 when there was no response), and for a non-2xx response Get
\* and put return the Response with its status and body and a nil error
C19_NilErrorForNon2xx ==
    \A i \in DOMAIN lastSetup.http :
        LET c == lastSetup.http[i]
        IN  /\ isError(c.r) <=> c.r.Status \notin 200 .. 299
            /\ ~c.out.resp => c.r.Status = 0
            /\ (c.out.resp /\ c.out.status \notin 200 .. 299) =>
                  /\ c.r.Status = c.out.status /\ c.r.Body # Nil
                  /\ c.err = Nil

\* C19 amended: a response is an error exactly when its status is outside
\* 200..299 (0 when there was no response); Get and put return the Response
\* with the status and body of the response client.Do returned, and the
\* error client.Do returned: nil for a non-2xx response, except that the
\* 3xx response at which the client stopped following redirects comes
\* with that error
C19_ResponsePassedOn ==
    \A i \in DOMAIN lastSetup.http :
        LET c == lastSetup.http[i]
        IN  /\ isError(c.r) <=> c.r.Status \notin 200 .. 299
            /\ c.logged <=> c.r.Status \notin 200 .. 299
            /\ ~c.out.resp => (c.r.Status = 0 /\ c.err # Nil)
            /\ c.out.resp => (c.r.Status = c.out.status /\ c.r.Body # Nil)
            /\ c.err = c.out.err
            /\ (c.out.resp /\ c.out.status \notin 200 .. 299 /\ c.err # Nil) =>
                  (c.out.status \in 300 .. 399 /\ c.err = "RedirectPolicy")

C19_Witness ==
    \E i \in DOMAIN lastSetup.http :
        /\ lastSetup.http[i].r.Status = 404 /\ lastSetup.http[i].err = Nil
        /\ lastSetup.http[i].method = "PUT"
        /\ lastSetup.err = "verifyCode"

C20_NotTrustedNotRetried ==
    \A i \in DOMAIN sendLog :
        sendLog[i].err.kind = "NotTrusted" =>
            /\ \A j \in DOMAIN sendLog : j # i => sendLog[j].msg # sendLog[i].msg
            /\ \E k \in DOMAIN console :
                  /\ console[k].id = sendLog[i].err.ID
                  /\ console[k].msg = sendLog[i].msg
            /\ sendLog[i].fn = "SendMessage" =>
                  (proc = "fatal" /\ i = Len(sendLog) /\ sendLog[i].err.ID = sendLog[i].to)

C20_Witness ==
    /\ proc = "fatal" /\ Len(sendLog) = 2
    /\ sendLog[2].err = NotTrustedError("+alice")
    /\ sendLog[2].msg = <<"line", 2>>
    /\ console[Len(console)] = [how |-> "Fatalf", id |-> "+alice", msg |-> <<"line", 2>>]

\* C21: the secrets a Setup generates are within their bounds for every
\* random input: the registration id it stores is a 14-bit value, and the
\* signaling key it stores has 52 bytes, which the envelope layer splits
\* into a 32-byte AES key and a 20-byte MAC key
C21_SecretsInBounds ==
    (lastSetup.called /\ Did(lastSetup.ops, "SetLocalRegistrationID")) =>
        /\ store.registrationID \in 0 .. 16383
        /\ store.registrationID = lastSetup.rand.lo % 16384
        /\ store.signalingKey = 52
        /\ signalingKeySplit(store.signalingKey) =
              [panic |-> FALSE, aesKey |-> 32, macKey |-> 20]

C21_Witness ==
    /\ lastSetup.called /\ lastSetup.rand = [hi |-> 65535, lo |-> 65535]
    /\ store.registrationID = 16383 /\ store.signalingKey = 52

\* C22: over any sequence of Setup calls, Setup returns nil only if the
\* registration with the server has completed, in this call or an earlier one
C22_NilOnlyIfRegistered ==
    (lastSetup.called /\ lastSetup.err = Nil) => lastSetup.registered

\* the steps of registerDevice, in the order of the code
RegisterSteps == <<"requestCode", "verifyCode", "generatePreKeys",
                   "generatePreKeyState", "registerPreKeys2">>

\* the steps of registerDevice that send a request, in order
RequestSteps == <<"requestCode", "verifyCode", "registerPreKeys2">>

\* where the step op is among the steps of a Setup call
Pos(ops, op) == CHOOSE i \in DOMAIN ops : ops[i] = op

\* C24: registerDevice runs its steps in the order requestCode, verifyCode,
\* generatePreKeys, generatePreKeyState, registerPreKeys2, each at most once;
\* a failed request is the last step of the Setup call and its error is what
\* Setup returns; and the requests are made by a transporter built after
\* storeHTTPPassword, with the password the store then holds
C24_RegistrationOrder ==
    lastSetup.called =>
        LET ops == lastSetup.ops
            http == lastSetup.http
        IN  /\ \A op \in CreateOps \cup NetworkOps :
                  Cardinality({i \in DOMAIN ops : ops[i] = op}) <= 1
            /\ \A k \in 1 .. Len(RegisterSteps) - 1 :
                  Did(ops, RegisterSteps[k + 1]) =>
                      /\ Did(ops, RegisterSteps[k])
                      /\ Pos(ops, RegisterSteps[k]) + 1 = Pos(ops, RegisterSteps[k + 1])
            /\ \A k \in 1 .. Len(RequestSteps) :
                  Did(ops, RequestSteps[k]) <=> k <= Len(http)
            /\ \A k \in DOMAIN http :
                  Failed(http[k]) =>
                      /\ k = Len(http)
                      /\ lastSetup.err = RequestSteps[k]
                      /\ ops[Len(ops)] = RequestSteps[k]
            /\ http # <<>> =>
                  /\ Pos(ops, "storeHTTPPassword") < Pos(ops, "setupTransporter")
                  /\ Pos(ops, "setupTransporter") < Pos(ops, "requestCode")
                  /\ lastSetup.pass # 0 /\ lastSetup.pass = lastSetup.stored
                  /\ lastSetup.stored = store.password

C24_Witness ==
    /\ lastSetup.called /\ lastSetup.err = "verifyCode" /\ Len(lastSetup.http) = 2
    /\ Failed(lastSetup.http[2]) /\ ~Did(lastSetup.ops, "generatePreKeys")
    /\ lastSetup.ops[Len(lastSetup.ops)] = "verifyCode"

\* C23: every RESPONSE frame the client sends answers a REQUEST frame it
\* received and carries the id of that request; a received RESPONSE frame
\* causes no acknowledgement
C23_AckAnswersRequest ==
    \A k \in DOMAIN sent :
        sent[k].type = "RESPONSE" =>
            /\ cur.type = "REQUEST"
            /\ sent[k].id = cur.id

\* the sends of typed lines, in the order the conversation loops made them
LineSends == SelectSeq(sendLog, LAMBDA c : c.msg[1] = "line")

\* C25: whenever a conversation loop reads activeSession for the recipient of
\* a typed line, activeSession is set (no nil dereference) and is the intended
\* peer: the one of the command line or of the group, when there is one
C25_ActiveSessionSet ==
    /\ proc # "panic"
    /\ \A k \in DOMAIN LineSends :
          options.To # "" => LineSends[k].to = options.To

\* C26: in non-echo mode at most one conversation loop task is running, over
\* any sequence of received messages
C26_OneConversationLoop ==
    ~options.Echo => Len(loops) <= 1

====
